---------------------------- MODULE Spec2Model ----------------------------
(*************************************************************************)
(* Recipe-book backend: the record-building path of the recipe handlers  *)
(* (mapQuantifiable, extractRecipe, create, change, fetchById, discard), *)
(* the user handlers of controllers/user.js, and the quantity engine     *)
(* (util/quantify) they call.  The engine is modelled from its written   *)
(* contract (design sections 4.1-4.5).                                   *)
(*                                                                       *)
(* Numbers are exact rationals kept as integers in units of 1/Scale.     *)
(* JavaScript values are tagged records: [t |-> "undefined"],            *)
(* [t |-> "num", v |-> n], [t |-> "str", s |-> <<chars>>],               *)
(* [t |-> "text", s |-> "..."], [t |-> "obj", ...].                      *)
(*************************************************************************)
EXTENDS Integers, Sequences, FiniteSets, TLC

(* ------------------------------ bounds ------------------------------ *)

\* largest whole part of a quantity value drawn as an input
MaxWhole == 1

\* number of well-formed recipe IDs the database may hold
MaxIds == 2

(* --------------------------- JS value layer -------------------------- *)

Undef == [t |-> "undefined"]
Num(n) == [t |-> "num", v |-> n]
Str(cs) == [t |-> "str", s |-> cs]
Text(s) == [t |-> "text", s |-> s]

\* every numeric value v stands for the rational v / Scale
Scale == 48

\* JavaScript truthiness of a raw JSON value (0, "" and undefined are falsy)
Truthy(x) ==
    CASE x.t = "undefined" -> FALSE
      [] x.t = "num" -> x.v # 0
      [] x.t = "str" -> x.s # <<>>
      [] OTHER -> TRUE

(* ---------------------------- Unit Registry -------------------------- *)

UpperAlphabet == <<"A","B","C","D","E","F","G","H","I","J","K","L","M",
                   "N","O","P","Q","R","S","T","U","V","W","X","Y","Z">>
LowerAlphabet == <<"a","b","c","d","e","f","g","h","i","j","k","l","m",
                   "n","o","p","q","r","s","t","u","v","w","x","y","z">>

LowerChar(c) ==
    IF \E i \in 1..26 : UpperAlphabet[i] = c
    THEN LowerAlphabet[CHOOSE i \in 1..26 : UpperAlphabet[i] = c]
    ELSE c

LowerCase(cs) == [i \in 1..Len(cs) |-> LowerChar(cs[i])]

RECURSIVE TrimLeft(_)
TrimLeft(cs) ==
    IF cs # <<>> /\ Head(cs) = " " THEN TrimLeft(Tail(cs)) ELSE cs

RECURSIVE TrimRight(_)
TrimRight(cs) ==
    IF cs # <<>> /\ cs[Len(cs)] = " "
    THEN TrimRight(SubSeq(cs, 1, Len(cs) - 1))
    ELSE cs

Trim(cs) == TrimRight(TrimLeft(cs))

\* UnitDefinition table: canonical token, aliases, category, factor to the
\* category's base unit in thousandths, singular / plural display forms
UnitTable ==
    << [token |-> "cup", aliases |-> {<<"c","u","p">>, <<"c">>},
        category |-> "Volume", factorMilli |-> 236588,
        singular |-> "cup", plural |-> "cups"],
       [token |-> "tsp", aliases |-> {<<"t","s","p">>,
                                      <<"t","e","a","s","p","o","o","n">>},
        category |-> "Volume", factorMilli |-> 4929,
        singular |-> "teaspoon", plural |-> "teaspoons"],
       [token |-> "g", aliases |-> {<<"g">>, <<"g","r","a","m">>},
        category |-> "Mass", factorMilli |-> 1000,
        singular |-> "g", plural |-> "g"],
       [token |-> "kg", aliases |-> {<<"k","g">>},
        category |-> "Mass", factorMilli |-> 1000000,
        singular |-> "kg", plural |-> "kg"] >>

NotFound == [token |-> "?", aliases |-> {}, category |-> "None",
             factorMilli |-> 0, singular |-> "?", plural |-> "?"]

Registered(cs) == \E i \in 1..Len(UnitTable) : cs \in UnitTable[i].aliases

Lookup(cs) ==
    UnitTable[CHOOSE i \in 1..Len(UnitTable) : cs \in UnitTable[i].aliases]

Singular(t) ==
    IF t # <<>> /\ t[Len(t)] = "s" THEN SubSeq(t, 1, Len(t) - 1) ELSE t

ResolveSingular(t, sing) ==
    IF t # sing /\ Registered(sing) THEN Lookup(sing)
    ELSE IF Registered(t) THEN Lookup(t)
    ELSE NotFound

ResolveTrimmed(t) == ResolveSingular(t, Singular(t))

\* resolve(token): case-insensitive, trimmed; a trailing "s" is stripped when
\* the singular form is registered, before the exact alias match
resolve(cs) == ResolveTrimmed(Trim(LowerCase(cs)))

(* --------------------------- Quantity Parser ------------------------- *)

Digits == <<"0","1","2","3","4","5","6","7","8","9">>
IsDigit(c) == \E i \in 1..10 : Digits[i] = c
DigitVal(c) == (CHOOSE i \in 1..10 : Digits[i] = c) - 1

RECURSIVE DigitsValue(_)
DigitsValue(cs) ==
    IF cs = <<>> THEN 0
    ELSE 10 * DigitsValue(SubSeq(cs, 1, Len(cs) - 1)) + DigitVal(cs[Len(cs)])

RECURSIVE Pow10(_)
Pow10(k) == IF k <= 0 THEN 1 ELSE 10 * Pow10(k - 1)

AllDigits(cs) == \A i \in 1..Len(cs) : IsDigit(cs[i])

ParseParts(neg, oneDot, ip, fp) ==
    IF oneDot /\ AllDigits(ip) /\ AllDigits(fp) /\ Len(ip) + Len(fp) > 0
    THEN [ok |-> TRUE,
          v  |-> (IF neg THEN 0 - 1 ELSE 1)
                   * (DigitsValue(ip) * Scale
                        + (DigitsValue(fp) * Scale) \div Pow10(Len(fp)))]
    ELSE [ok |-> FALSE, v |-> 0]

ParseAt(neg, body, dots, dot) ==
    ParseParts(neg, Cardinality(dots) <= 1,
               SubSeq(body, 1, dot - 1), SubSeq(body, dot + 1, Len(body)))

ParseSplit(neg, body, dots) ==
    ParseAt(neg, body, dots,
            IF dots = {} THEN Len(body) + 1 ELSE CHOOSE i \in dots : TRUE)

ParseUnsigned(neg, body) ==
    ParseSplit(neg, body, {i \in 1..Len(body) : body[i] = "."})

ParseSigned(cs) ==
    ParseUnsigned(cs # <<>> /\ Head(cs) = "-",
                  IF cs # <<>> /\ Head(cs) \in {"-", "+"} THEN Tail(cs) ELSE cs)

\* a decimal number: optional leading sign, digits, at most one decimal point
ParseDecimal(cs) == ParseSigned(Trim(cs))

Err(kind, token) == [kind |-> "Err", err |-> kind, token |-> token]
Absent == [kind |-> "Absent"]

NumberOf(rawValue) ==
    IF rawValue.t = "num" THEN [ok |-> TRUE, v |-> rawValue.v]
    ELSE IF rawValue.t = "str" THEN ParseDecimal(rawValue.s)
    ELSE [ok |-> FALSE, v |-> 0]

UnitOf(rawUnit) ==
    IF rawUnit.t = "str" THEN resolve(rawUnit.s) ELSE NotFound

ParseChecked(rawValue, rawUnit, num, def) ==
    IF rawValue.t = "undefined" /\ rawUnit.t = "undefined" THEN Absent
    ELSE IF rawValue.t = "undefined" \/ rawUnit.t = "undefined"
         THEN Err("IncompleteQuantity", <<>>)
    ELSE IF ~num.ok THEN Err("InvalidNumber", <<>>)
    ELSE IF num.v < 0 THEN Err("NegativeQuantity", <<>>)
    ELSE IF def = NotFound
         THEN Err("UnknownUnit", IF rawUnit.t = "str" THEN rawUnit.s ELSE <<>>)
    ELSE [kind |-> "Quantity", value |-> num.v, unit |-> def]

\* parse(rawValue, rawUnit) -> Quantity | Absent | ParseError
parse(rawValue, rawUnit) ==
    ParseChecked(rawValue, rawUnit, NumberOf(rawValue), UnitOf(rawUnit))

(* ------------------------------ Normalizer --------------------------- *)

\* round-half-to-even of the non-negative rational p / q
RoundHalfEven(p, q) ==
    IF 2 * (p % q) > q THEN p \div q + 1
    ELSE IF 2 * (p % q) = q THEN p \div q + ((p \div q) % 2)
    ELSE p \div q

\* number of significant decimal digits kept by the normalizer
SigDigits == 4

\* p / q times 10^k, as numerator and denominator
Up(p, k) == IF k >= 0 THEN p * Pow10(k) ELSE p
Down(q, k) == IF k >= 0 THEN q ELSE q * Pow10(0 - k)

\* the decimal exponent k for which 10^(SigDigits-1) <= (p/q) * 10^k < 10^SigDigits
RECURSIVE SigExp(_, _, _)
SigExp(p, q, k) ==
    IF Up(p, k) >= Down(q, k) * Pow10(SigDigits) THEN SigExp(p, q, k - 1)
    ELSE IF Up(p, k) < Down(q, k) * Pow10(SigDigits - 1) THEN SigExp(p, q, k + 1)
    ELSE k

Renorm(m, k) ==
    IF m = Pow10(SigDigits) THEN [m |-> Pow10(SigDigits - 1), k |-> k - 1]
    ELSE [m |-> m, k |-> k]

RoundSigAt(p, q, k) == Renorm(RoundHalfEven(Up(p, k), Down(q, k)), k)

\* p / q rounded to SigDigits significant digits: the number m * 10^(-k)
RoundSig(p, q) ==
    IF p = 0 THEN [m |-> 0, k |-> 0] ELSE RoundSigAt(p, q, SigExp(p, q, 0))

\* normalize(q): value * unit.factorToBase in the unit's category
normalize(q) ==
    [category |-> q.unit.category,
     value    |-> RoundSig(q.value * q.unit.factorMilli, Scale * 1000)]

(* --------------------------- Fraction Formatter ---------------------- *)

RECURSIVE GCD(_, _)
GCD(a, b) == IF b = 0 THEN a ELSE GCD(b, a % b)

Abs(x) == IF x < 0 THEN 0 - x ELSE x

\* supported denominators, in priority order
Denominators == <<2, 3, 4, 8>>

InTolerance(f, d, n) ==
    0 < n /\ n < d /\ Abs(f * d - n * Scale) * 64 <= Scale * d

\* the numerator n (0 < n < d) closest to f / Scale, or 0 when none is
\* within the tolerance 1/64
ClosestNum(f, d) ==
    IF InTolerance(f, d, RoundHalfEven(f * d, Scale))
    THEN RoundHalfEven(f * d, Scale) ELSE 0

FirstOf(hits) ==
    IF hits = {} THEN 0
    ELSE Denominators[CHOOSE i \in hits : \A j \in hits : i <= j]

\* first denominator (by priority) with a fraction within tolerance; 0 if none
MatchDen(f) ==
    FirstOf({i \in 1..Len(Denominators) : ClosestNum(f, Denominators[i]) > 0})

TwoDigits(n) == IF n < 10 THEN "0" \o ToString(n) ELSE ToString(n)

Cents(c) == ToString(c \div 100) \o "." \o TwoDigits(c % 100)

\* decimal fallback: the value rounded to 2 places
DecimalText(v) == Cents(RoundHalfEven(v * 100, Scale))

Reduced(n, d, g) == ToString(n \div g) \o "/" \o ToString(d \div g)

FractionText(w, n, d) ==
    IF w = 0 THEN Reduced(n, d, GCD(n, d))
    ELSE ToString(w) \o " " \o Reduced(n, d, GCD(n, d))

NumberText(v, w, f, d) ==
    IF f * 1000000 <= Scale THEN ToString(w)
    ELSE IF d # 0 THEN FractionText(w, ClosestNum(f, d), d)
    ELSE DecimalText(v)

\* render(value, unit): whole number, vulgar fraction or decimal fallback,
\* followed by the unit's display form (plural unless the value is exactly 1)
render(v, unit) ==
    NumberText(v, v \div Scale, v % Scale, MatchDen(v % Scale))
        \o " " \o (IF v = Scale THEN unit.singular ELSE unit.plural)

(* ------------------------- Quantifiable facade ----------------------- *)

BuildFrom(q) ==
    IF q.kind # "Quantity" THEN q
    ELSE [kind       |-> "Rendering",
          readable   |-> Text(render(q.value, q.unit)),
          normalized |-> [t |-> "norm", n |-> normalize(q).value],
          unit       |-> Text(q.unit.token)]

\* build(rawValue, rawUnit) -> Rendering | Absent | QuantityError
build(rawValue, rawUnit) == BuildFrom(parse(rawValue, rawUnit))

(* ------------------- record building (the collaborator) ------------- *)

Obj(q, u) == [t |-> "obj", quantity |-> q, unit |-> u]

\* reading a property of what build returned: a Rendering has readable,
\* normalized and unit; any other name, and any property of an error value,
\* reads as undefined
Get(q, name) ==
    IF q.kind = "Rendering"
    THEN CASE name = "readable"   -> q.readable
           [] name = "normalized" -> q.normalized
           [] name = "unit"       -> q.unit
           [] OTHER               -> Undef
    ELSE Undef

Quantified(q) ==
    [t        |-> "quantified",
     readable |-> Get(q, "readable"),
     numeric  |-> Get(q, "normalized"),
     unit     |-> Get(q, "units")]

\* a slip in mapQuantifiable: the readable text taken from the wrong property
mapQuantifiableMisread(input) ==
    IF input.t = "obj" /\ Truthy(input.quantity) /\ Truthy(input.unit)
    THEN [Quantified(build(input.quantity, input.unit))
            EXCEPT !.readable = Get(build(input.quantity, input.unit), "units")]
    ELSE Undef

\* controllers/recipe.js mapQuantifiable
mapQuantifiable(input) ==
    IF input.t = "obj" /\ Truthy(input.quantity) /\ Truthy(input.unit)
    THEN Quantified(build(input.quantity, input.unit))
    ELSE Undef

Thrown == [t |-> "thrown"]

RouteQuantified(q, absentIsNullish) ==
    IF q.kind = "Absent" /\ absentIsNullish THEN Thrown ELSE Quantified(q)

\* the recipe route's mapQuantifiable: every present input object is built.
\* Reading a property of Absent throws when Absent is null or undefined
\* (absentIsNullish) and reads as undefined when it is an object.
routeMapQuantifiable(input, absentIsNullish) ==
    IF input.t = "obj"
    THEN RouteQuantified(build(input.quantity, input.unit), absentIsNullish)
    ELSE Undef

(* ------------------------------ state -------------------------------- *)

VARIABLES
    qin,    \* the quantifiable input handed to mapQuantifiable
    qpc,    \* "ready", or which mapQuantifiable has run: "controller", "route"
    qout,   \* what mapQuantifiable returned
    db,     \* the Recipe collection: well-formed id -> document or NoDoc
    last,   \* the last recipe operation: its arguments, what it built, its result
    ureq    \* the user request in flight: handler, position, service results

vars == <<qin, qpc, qout, db, last, ureq>>

(* --------------------------- unit tokens used ------------------------ *)

Chars(i) ==
    CASE i = 1 -> <<"c","u","p">>
      [] i = 2 -> <<"C","u","p","s">>
      [] i = 3 -> <<" ","t","s","p"," ">>
      [] i = 4 -> <<"t","e","a","s","p","o","o","n","s">>
      [] i = 5 -> <<"g">>
      [] i = 6 -> <<"k","g">>
      [] i = 7 -> <<"b","o","g","u","s">>
      [] OTHER -> <<>>

Idle == [handler |-> "none", pc |-> "idle"]
NoLast == [op |-> "none"]

(* ------------------------ the recipe controller ---------------------- *)

Arr(a) == [t |-> "arr", a |-> a]
NoDoc == [t |-> "null"]

\* quickResponse(status, message, reason): { status, data: { message, reason } }
quickResponse(status, message, reason) ==
    [status |-> status, data |-> [message |-> message, reason |-> reason]]

\* controllers/recipe.js extractRecipe: the body's literal fields, prepTime
\* mapped, each ingredient's amount mapped; .map of a non-array throws
extractRecipe(body) ==
    IF Truthy(body.ingredients) /\ body.ingredients.t # "arr" THEN Thrown
    ELSE [t           |-> "recipe",
          title       |-> body.title,
          prepTime    |-> mapQuantifiable(body.prepTime),
          ingredients |->
              IF Truthy(body.ingredients)
              THEN Arr([i \in 1..Len(body.ingredients.a) |->
                          [name   |-> body.ingredients.a[i].name,
                           amount |-> mapQuantifiable(body.ingredients.a[i].amount)]])
              ELSE body.ingredients]

RouteAmounts(body, nullish) ==
    IF body.ingredients.t = "arr"
    THEN [i \in 1..Len(body.ingredients.a) |->
            routeMapQuantifiable(body.ingredients.a[i].amount, nullish)]
    ELSE <<>>

RouteAssemble(body, prep, amts) ==
    IF prep = Thrown THEN Thrown
    ELSE IF Truthy(body.ingredients) /\ body.ingredients.t # "arr" THEN Thrown
    ELSE IF \E i \in 1..Len(amts) : amts[i] = Thrown THEN Thrown
    ELSE [t           |-> "recipe",
          title       |-> body.title,
          prepTime    |-> prep,
          ingredients |->
              IF Truthy(body.ingredients)
              THEN Arr([i \in 1..Len(amts) |->
                          [name   |-> body.ingredients.a[i].name,
                           amount |-> amts[i]]])
              ELSE body.ingredients]

\* the recipe route's builder (the same steps around its own mapQuantifiable)
routeRecipeBuilder(body, nullish) ==
    RouteAssemble(body, routeMapQuantifiable(body.prepTime, nullish),
                  RouteAmounts(body, nullish))

HexDigits == <<"0","1","2","3","4","5","6","7","8","9","a","b","c","d","e","f">>
IsHex(c) == \E i \in 1..16 : HexDigits[i] = LowerChar(c)

\* length of a MongoDB ObjectID written in hexadecimal
ObjectIdLen == 24

\* objectIdIsValid: /^[a-f\d]{24}$/i
objectIdIsValid(id) ==
    Len(id) = ObjectIdLen /\ \A i \in 1..Len(id) : IsHex(id[i])

IdChars == <<"a", "B", "3", "0", "f", "7">>
MkId(c, n) == [i \in 1..n |-> c]
WellFormedIds == {MkId(IdChars[i], ObjectIdLen) : i \in 1..MaxIds}
MalformedIds == {<<"a","b","c">>, MkId("g", ObjectIdLen), MkId("a", ObjectIdLen + 1)}
Ids == WellFormedIds \cup MalformedIds

\* new Recipe(builder): the document the model makes of a built recipe
NewRecipe(builder) ==
    [t |-> "doc", title |-> builder.title, prepTime |-> builder.prepTime,
     ingredients |-> builder.ingredients, modified |-> FALSE]

Cup == Str(Chars(1))
Ingredient(amount) == [name |-> Text("salt"), amount |-> amount]

Body(p, i) == [title |-> Text("soup"), prepTime |-> p, ingredients |-> i]

\* request bodies: quantity omitted, empty quantity object, a valid quantity,
\* a value without a unit, a negative value, an unknown unit, and an
\* ingredients field that is no array
Bodies ==
    {Body(Undef, Undef),
     Body(Obj(Undef, Undef), Undef),
     Body(Obj(Num(Scale + Scale \div 2), Cup), Arr(<<Ingredient(Undef)>>)),
     Body(Obj(Num(Scale), Undef), Undef),
     Body(Obj(Num(0 - Scale), Cup),
          Arr(<<Ingredient(Obj(Num(Scale), Str(Chars(7))))>>)),
     Body(Undef, Str(<<"x">>))}

\* what the handlers build of each request body, and which ids are ObjectIDs
\* (tabulated once: the bodies and ids are fixed sets)
Built == [b \in Bodies |-> extractRecipe(b)]
RouteBuilt == [b \in Bodies |-> [n \in BOOLEAN |-> routeRecipeBuilder(b, n)]]
ValidId == [id \in Ids |-> objectIdIsValid(id)]

InitRecipe ==
    /\ db = [id \in WellFormedIds |-> NoDoc]
    /\ last = NoLast
    /\ qin = Undef
    /\ qpc = "ready"
    /\ qout = Undef
    /\ ureq = Idle

\* Recipe.findById: the document, null when there is none; a malformed id
\* fails to cast and throws
findById(id) ==
    IF ~ValidId[id] THEN Thrown
    ELSE IF id \in DOMAIN db THEN db[id] ELSE NoDoc

\* fetch: every stored recipe, status 200
fetch ==
    /\ last' = [op |-> "fetch",
                res |-> quickResponse(200,
                           {db[id] : id \in {i \in DOMAIN db : db[i] # NoDoc}},
                           Undef)]
    /\ UNCHANGED <<db, qin, qpc, qout, ureq>>

NotFoundMessage == Text("could not be retrieved")

fetchByIdResult(id) ==
    IF findById(id) # Thrown /\ findById(id) # NoDoc
    THEN quickResponse(200, findById(id), Undef)
    ELSE quickResponse(404, NotFoundMessage, Undef)

fetchById ==
    /\ \E id \in Ids : last' = [op |-> "fetchById", id |-> id,
                                res |-> fetchByIdResult(id)]
    /\ UNCHANGED <<db, qin, qpc, qout, ureq>>

FreeIds == {id \in DOMAIN db : db[id] = NoDoc}

Others == <<qin, qpc, qout, ureq>>

Created == quickResponse(201, Text("created"), Undef)
NotCreated == quickResponse(400, Text("could not be created"), Text("validation"))

\* new Recipe(builder) and save(), shared by create and the route's POST:
\* a throw while building happens outside the try block and leaves the
\* caller with a rejected promise and no response; save() succeeds or fails
\* validation (the schema decides)
SaveNew(op, json, builder) ==
    IF builder = Thrown
    THEN /\ last' = [op |-> op, json |-> json, built |-> Thrown, res |-> Thrown]
         /\ UNCHANGED <<db, Others>>
    ELSE \E id \in FreeIds, saved \in BOOLEAN :
         /\ db' = IF saved THEN [db EXCEPT ![id] = NewRecipe(builder)] ELSE db
         /\ last' = [op |-> op, json |-> json, id |-> id, built |-> builder,
                     res |-> IF saved THEN Created ELSE NotCreated]
         /\ UNCHANGED Others

\* create(json)
create == \E json \in Bodies : SaveNew("create", json, Built[json])

\* the recipe route's POST handler
routeCreate ==
    \E json \in Bodies, nullish \in BOOLEAN :
        SaveNew("routeCreate", json, RouteBuilt[json][nullish])

NotUpdated(reason) == quickResponse(400, Text("could not be updated"), reason)

Changed(id, json, builder, res) ==
    [op |-> "change", id |-> id, json |-> json, built |-> builder, res |-> res]

\* the body of change's try block once the id is known to be an ObjectID.
\* fetchById's result is used without looking at its status: on a not-found
\* result currRecipe is the message string, the property writes to it are
\* ignored and currRecipe.save is not a function, which the catch block
\* turns into 400
ChangeFetched(id, json, currRecipe, builder) ==
    IF builder = Thrown
    THEN /\ last' = Changed(id, json, Thrown,
                            NotUpdated(Text("map is not a function")))
         /\ UNCHANGED <<db, Others>>
    ELSE IF currRecipe.t # "doc"
    THEN /\ last' = Changed(id, json, builder,
                            NotUpdated(Text("save is not a function")))
         /\ UNCHANGED <<db, Others>>
    ELSE \E saved \in BOOLEAN :
         /\ db' = IF saved
                  THEN [db EXCEPT ![id] =
                          [NewRecipe(builder) EXCEPT !.modified = TRUE]]
                  ELSE db
         /\ last' = Changed(id, json, builder,
                            IF saved
                            THEN quickResponse(200, Text("updated"), Undef)
                            ELSE NotUpdated(Text("validation")))
         /\ UNCHANGED Others

\* change(id, json)
change ==
    \E id \in Ids, json \in Bodies :
        IF ~ValidId[id]
        THEN /\ last' = Changed(id, json, Undef,
                                quickResponse(404, NotFoundMessage, Undef))
             /\ UNCHANGED <<db, Others>>
        ELSE ChangeFetched(id, json, fetchByIdResult(id).data.message,
                           Built[json])

\* discard: 404 for a malformed id or when nothing was deleted
discard ==
    \E id \in Ids :
        IF findById(id) = Thrown \/ findById(id) = NoDoc
        THEN /\ last' = [op |-> "discard", id |-> id,
                         res |-> quickResponse(404, NotFoundMessage, Undef)]
             /\ UNCHANGED <<db, Others>>
        ELSE /\ db' = [db EXCEPT ![id] = NoDoc]
             /\ last' = [op |-> "discard", id |-> id,
                         res |-> quickResponse(200, Text("deleted"), Undef)]
             /\ UNCHANGED Others

NextRecipe == fetch \/ fetchById \/ create \/ routeCreate \/ change \/ discard

SpecRecipe == InitRecipe /\ [][NextRecipe]_vars

(* -------------------------- the user handlers ------------------------ *)

\* statuses a service call resolves with
Statuses == {200, 400, 404, 500}

User(name) ==
    [username |-> Text(name), password |-> Text("hash"), versionKey |-> Num(0)]

\* userService.fetch(): the list of users, or a failure without a message
UserFetchResults ==
    {quickResponse(200, Arr(<<>>), Undef),
     quickResponse(200, Arr(<<User("ann")>>), Undef),
     quickResponse(200, Arr(<<User("ann"), User("bob")>>), Undef),
     quickResponse(500, Undef, Undef)}

\* userService.fetchById(id): the user, or not found with its message
UserFetchByIdResults ==
    {quickResponse(200, User("ann"), Undef),
     quickResponse(200, User("bob"), Undef),
     quickResponse(404, Text("could not be retrieved"), Undef)}

\* what a service call resolves with, its origin kept in the message
ServiceResult(service, status) ==
    quickResponse(status, Text(service), IF status = 200 THEN Undef ELSE Text("reason"))

\* user.password = user.__v = undefined
Blank(user) == [user EXCEPT !.password = Undef, !.versionKey = Undef]

\* res.json: a property whose value is undefined is not serialised
Json(object) ==
    [k \in {f \in DOMAIN object : object[f] # Undef} |-> object[k]]

Send(status, body) == [t |-> "response", status |-> status, body |-> body]

UserIds == {MkId(IdChars[i], ObjectIdLen) : i \in 1..MaxIds} \cup {<<"a","b","c">>}

Done(handler, id, svc, media, sent) ==
    [handler |-> handler, pc |-> "done", id |-> id, svc |-> svc,
     media |-> media, sent |-> sent]

RecipeVars == <<qin, qpc, qout, db, last>>

InitUser ==
    /\ ureq = Idle
    /\ db = [id \in WellFormedIds |-> NoDoc]
    /\ last = NoLast
    /\ qin = Undef
    /\ qpc = "ready"
    /\ qout = Undef

\* getAllUsers: forEach over data.message throws unless it is an array
getAllUsers ==
    /\ ureq.pc = "idle"
    /\ \E r \in UserFetchResults :
         ureq' = Done("getAllUsers", <<>>, r, "none",
                      IF r.data.message.t = "arr"
                      THEN Send(r.status,
                                [i \in 1..Len(r.data.message.a) |->
                                    Json(Blank(r.data.message.a[i]))])
                      ELSE Thrown)
    /\ UNCHANGED RecipeVars

IsUser(x) == "username" \in DOMAIN x

\* getUserById: the property writes are ignored when data.message is a
\* string and throw when it is undefined
getUserById ==
    /\ ureq.pc = "idle"
    /\ \E id \in UserIds, r \in UserFetchByIdResults :
         ureq' = Done("getUserById", id, r, "none",
                      IF IsUser(r.data.message)
                      THEN Send(r.status, <<Json(Blank(r.data.message))>>)
                      ELSE IF r.data.message = Undef THEN Thrown
                      ELSE Send(r.status, <<r.data.message>>))
    /\ UNCHANGED RecipeVars

\* postUser, signIn, putUser, deleteUser: the service's answer is sent as is
PassThrough ==
    /\ ureq.pc = "idle"
    /\ \E h \in {"postUser", "signIn", "putUser", "deleteUser"},
          id \in UserIds, st \in Statuses :
         ureq' = Done(h, id, ServiceResult("userService", st), "none",
                      Send(st, ServiceResult("userService", st).data))
    /\ UNCHANGED RecipeVars

\* file names as their parts between the dots
Filenames == {<<"a", "png">>, <<"a", "jpg">>, <<"a", "b", "png">>, <<"a">>}

\* filename.split('.')[1] === 'png' ? 'png' : 'jpeg'
ImageType(filename) ==
    IF Len(filename) >= 2 /\ filename[2] = "png" THEN "png" ELSE "jpeg"

\* getUserMedia: the file with its content type, or the service's failure
getUserMedia ==
    /\ ureq.pc = "idle"
    /\ \E id \in UserIds, filename \in Filenames, st \in Statuses :
         ureq' = Done("getUserMedia", id, ServiceResult("mediaService", st), "fetch",
                      IF st # 200
                      THEN Send(st, ServiceResult("mediaService", st).data)
                      ELSE Send(st, [contentType |-> "image/" \o ImageType(filename)]))
    /\ UNCHANGED RecipeVars

MediaHandlers == {"postUserMedia", "putUserMedia", "deleteUserMedia"}

\* the user service call each media handler makes first
UserCall(handler) ==
    CASE handler = "postUserMedia"   -> "setMedia"
      [] handler = "putUserMedia"    -> "resetMedia"
      [] handler = "deleteUserMedia" -> "unsetMedia"

\* the media service call each media handler makes on success
MediaCall(handler) ==
    CASE handler = "postUserMedia"   -> "set"
      [] handler = "putUserMedia"    -> "setOverwrite"
      [] handler = "deleteUserMedia" -> "unset"

\* a media handler starts and awaits the user service
StartMedia ==
    /\ ureq.pc = "idle"
    /\ \E h \in MediaHandlers, id \in UserIds :
         ureq' = [handler |-> h, pc |-> "userService", id |-> id,
                  svc |-> Undef, media |-> "none", sent |-> Undef]
    /\ UNCHANGED RecipeVars

\* a slip in the status check: only "not found" stops the handler
DefersToMediaUnless404(userServiceStatus) == userServiceStatus # 404

\* only defer to the media service if the user service call succeeds
DefersToMedia(userServiceStatus) == userServiceStatus = 200

\* the user service resolves: respond with its failure, or call the media
\* service and await it
UserServiceReturns ==
    /\ ureq.pc = "userService"
    /\ \E st \in Statuses :
         ureq' = IF ~DefersToMedia(st)
                 THEN [ureq EXCEPT !.pc = "done",
                                  !.svc = ServiceResult(UserCall(ureq.handler), st),
                                  !.sent = Send(st, ServiceResult(UserCall(ureq.handler), st).data)]
                 ELSE [ureq EXCEPT !.pc = "mediaService",
                                  !.svc = ServiceResult(UserCall(ureq.handler), st),
                                  !.media = MediaCall(ureq.handler)]
    /\ UNCHANGED RecipeVars

\* the media service resolves and its answer is sent
MediaServiceReturns ==
    /\ ureq.pc = "mediaService"
    /\ \E st \in Statuses :
         ureq' = [ureq EXCEPT !.pc = "done",
                              !.sent = Send(st, ServiceResult(ureq.media, st).data)]
    /\ UNCHANGED RecipeVars

\* the request is over; the next one may start
Finish ==
    /\ ureq.pc = "done"
    /\ ureq' = Idle
    /\ UNCHANGED RecipeVars

NextUser ==
    \/ getAllUsers \/ getUserById \/ PassThrough \/ getUserMedia
    \/ StartMedia \/ UserServiceReturns \/ MediaServiceReturns \/ Finish

SpecUser == InitUser /\ [][NextUser]_vars

(* ----------------- specification of the quantity path ---------------- *)

RawUnits == {Undef} \cup {Str(Chars(i)) : i \in 1..8}

RawValues ==
    {Undef, Num(0 - Scale)}
      \cup {Num(v) : v \in 0..((MaxWhole + 1) * Scale - 1)}
      \cup {Str(<<"1",".","5">>), Str(<<"-","1">>), Str(<<"a","b","c">>),
            Str(<<"2">>), Str(<<>>)}

QInputs == {Undef} \cup {Obj(q, u) : q \in RawValues, u \in RawUnits}

InitQuantity ==
    /\ qin \in QInputs
    /\ qpc = "ready"
    /\ qout = Undef
    /\ db = [id \in WellFormedIds |-> NoDoc]
    /\ last = NoLast
    /\ ureq = Idle

ApplyMapQuantifiable ==
    /\ qpc = "ready"
    /\ qout' = mapQuantifiable(qin)
    /\ qpc' = "controller"
    /\ UNCHANGED <<qin, db, last, ureq>>

ApplyRouteMapQuantifiable ==
    /\ qpc = "ready"
    /\ \E nullish \in BOOLEAN : qout' = routeMapQuantifiable(qin, nullish)
    /\ qpc' = "route"
    /\ UNCHANGED <<qin, db, last, ureq>>

NextQuantity == ApplyMapQuantifiable \/ ApplyRouteMapQuantifiable

SpecQuantity == InitQuantity /\ [][NextQuantity]_vars

(* ------------------------------ properties -------------------------- *)

Present(x) == x # Undef

\* the quantity engine's answer for the input mapQuantifiable was given
Engine == build(qin.quantity, qin.unit)

RegisteredUnit(u) == u.t = "str" /\ resolve(u.s) # NotFound

\* C1: whenever mapQuantifiable was given a quantity with exactly one of
\* value and unit present, the caller holds the error IncompleteQuantity
\* (the input is neither accepted nor treated as an absent quantity).
C1_IncompleteFails ==
    (/\ qpc # "ready"
     /\ qin.t = "obj"
     /\ Present(qin.quantity) # Present(qin.unit))
        => qout = Err("IncompleteQuantity", <<>>)

\* C2: a zero value with a registered unit is a present quantity: the
\* controller's mapQuantifiable returns a record whose readable text is
\* "0 <plural-unit>", never undefined.
C2_ZeroIsPresent ==
    (/\ qpc = "controller"
     /\ qin.t = "obj"
     /\ qin.quantity = Num(0)
     /\ RegisteredUnit(qin.unit))
        => /\ qout.t = "quantified"
           /\ qout.readable = Text("0 " \o resolve(qin.unit.s).plural)

PrepError(json) ==
    /\ json.prepTime.t = "obj"
    /\ build(json.prepTime.quantity, json.prepTime.unit).kind = "Err"

\* C3: a quantity error never becomes a fault or a quantity record: create
\* or change on a body whose prepTime the engine rejects completes with a
\* response, the recipe that was built holds no quantity record for that
\* prepTime, and no stored recipe holds a quantity record with an undefined
\* readable text.
C3_ErrorsNeverBecomeRecords ==
    /\ (/\ last.op \in {"create", "change"}
        /\ PrepError(last.json)
        /\ last.built # Undef)
          => /\ last.res # Thrown
             /\ last.built # Thrown
             /\ last.built.prepTime.t # "quantified"
    /\ \A id \in DOMAIN db :
          (db[id] # NoDoc /\ db[id].prepTime.t = "quantified")
              => db[id].prepTime.readable # Undef

BothAbsent(input) ==
    \/ input = Undef
    \/ (input.t = "obj" /\ input.quantity = Undef /\ input.unit = Undef)

\* C4: when value and unit are both absent the record builder yields the
\* no-quantity result (undefined): not a record, not an error, not a throw.
C4_AbsentPropagates ==
    (qpc # "ready" /\ BothAbsent(qin)) => qout = Undef

\* C5: every record made of a successfully built quantity carries the three
\* parts of the Rendering: readable, the normalized value, and the unit token.
C5_RecordCarriesRendering ==
    (/\ qpc # "ready"
     /\ qin.t = "obj"
     /\ qout.t = "quantified"
     /\ Engine.kind = "Rendering")
        => /\ qout.readable = Engine.readable
           /\ qout.numeric = Engine.normalized
           /\ qout.unit = Engine.unit

\* the fraction form of w + n/d in lowest terms, w omitted when zero
LowestTerms(w, n, d) ==
    (IF w = 0 THEN "" ELSE ToString(w) \o " ")
        \o ToString(n \div GCD(n, d)) \o "/" \o ToString(d \div GCD(n, d))

\* C6: for every whole part w and fraction n/d with d in {2, 3, 4, 8} and
\* 0 < n < d, the record built of the value w + n/d and a registered unit
\* reads "<w> <n'>/<d'> <plural unit>" with n'/d' in lowest terms, never the
\* decimal fallback.
C6_FractionForm ==
    \A w \in 0..MaxWhole, d \in {2, 3, 4, 8} : \A n \in 1..(d - 1) :
        (/\ qpc # "ready"
         /\ qin.t = "obj"
         /\ NumberOf(qin.quantity) = [ok |-> TRUE, v |-> w * Scale + (n * Scale) \div d]
         /\ RegisteredUnit(qin.unit))
            => /\ qout.t = "quantified"
               /\ qout.readable =
                    Text(LowestTerms(w, n, d) \o " " \o resolve(qin.unit.s).plural)

\* C6 witness: 1.5 cups went through the controller's mapQuantifiable and
\* reads "1 1/2 cups".
C6_Witness ==
    /\ qpc = "controller"
    /\ qin = Obj(Num(Scale + Scale \div 2), Cup)
    /\ qout.t = "quantified"
    /\ qout.readable = Text("1 1/2 cups")

\* C7: in the three media handlers the media service is called only once the
\* user service has answered 200; on any other status the handler sends
\* exactly the user service's status and data and the media service is
\* never called.
C7_MediaOnlyAfterSuccess ==
    ureq.handler \in MediaHandlers =>
        /\ ureq.media # "none" => (ureq.svc # Undef /\ ureq.svc.status = 200)
        /\ (ureq.pc = "done" /\ ureq.svc.status # 200)
              => /\ ureq.sent = Send(ureq.svc.status, ureq.svc.data)
                 /\ ureq.media = "none"

\* C7 witness: putUserMedia finished after resetMedia answered 404, with
\* that answer sent and no media service call.
C7_Witness ==
    /\ ureq.handler = "putUserMedia"
    /\ ureq.pc = "done"
    /\ ureq.svc.status = 404
    /\ ureq.sent = Send(404, ServiceResult("resetMedia", 404).data)
    /\ ureq.media = "none"

\* change never creates or deletes a recipe, so the recipe exists after the
\* call exactly when it existed before it
NoRecipe(id) == id \notin DOMAIN db \/ db[id] = NoDoc

\* C8: change answers 404 whenever no recipe with the id exists, malformed
\* or well-formed, and answers 200 only when an existing recipe was updated
\* and saved.
C8_ChangeNotFound ==
    last.op = "change" =>
        /\ NoRecipe(last.id) => last.res.status = 404
        /\ last.res.status = 200
              => (~NoRecipe(last.id) /\ db[last.id].modified)

\* C9: getAllUsers and getUserById always send a response, and no user
\* object in it has a password or version field.
C9_NoSecretsAlwaysResponds ==
    (ureq.pc = "done" /\ ureq.handler \in {"getAllUsers", "getUserById"})
        => /\ ureq.sent # Thrown
           /\ \A i \in 1..Len(ureq.sent.body) :
                 /\ "password" \notin DOMAIN ureq.sent.body[i]
                 /\ "versionKey" \notin DOMAIN ureq.sent.body[i]

=============================================================================
